---- MODULE Spec2Model ----
(***************************************************************************)
(* QUIC-FTP server (attenberger/ftps_qftp-server): the session supervisor   *)
(* Conn, its sub-connections SubConn (one FTP dialog per control stream),   *)
(* the command handlers and the path sanitiser.                             *)
(*                                                                          *)
(* A Go string is a sequence of atoms.  An atom is one character ("/", ".", *)
(* "a", "2", " ", "\r", ...) or one opaque word that the code only ever     *)
(* compares as a whole or upper-cases (a verb such as "STOR" or "quit", the *)
(* OPTS tokens "UTF8", "ON").  Every string function below works on atoms   *)
(* the way the Go function works on bytes.                                  *)
(***************************************************************************)
EXTENDS Integers, Sequences, FiniteSets, TLC

\* ------------------------------------------------------------------ bounds

\* longest filename handed to buildPath in SpecPath
MaxLen == 4
\* longest working directory SpecPath adopts as namePrefix
MaxPrefixLen == 3
\* depth of the directory tree the driver serves (ChangeDir fails below it)
MaxDepth == 1
\* inbound unidirectional streams the client opens in one session
MaxUniStreams == 2
\* control streams the client opens in one session (SpecSession)
MaxSubConn == 2
\* sessions the listener hands to Server.Serve (SpecServer)
MaxSessions == 3
\* control streams on which the client transfers files (SpecTransfer)
MaxTransferConn == 1
MaxDialogConn == 2
\* longest parameter handed to parseListParam in SpecListParam
MaxListLen == 5

\* ----------------------------------------------------------------- strings

Range(f) == { f[i] : i \in DOMAIN f }

\* s[from:] of Go (from is 0-based)
SliceFrom(s, from) == SubSeq(s, from + 1, Len(s))

\* s[:to] of Go
SliceTo(s, to) == SubSeq(s, 1, to)

\* strings.HasPrefix
HasPrefix(s, p) == Len(s) >= Len(p) /\ SubSeq(s, 1, Len(p)) = p

\* strings.Index for a one-atom separator: 0-based index of the first c, or -1
RECURSIVE IndexFrom(_, _, _)
IndexFrom(s, c, i) ==
  IF i > Len(s) THEN -1
  ELSE IF s[i] = c THEN i - 1
  ELSE IndexFrom(s, c, i + 1)

Index(s, c) == IndexFrom(s, c, 1)

\* strings.LastIndex(s, sub): 0-based index of the last occurrence, or -1
RECURSIVE LastIndexFrom(_, _, _)
LastIndexFrom(s, sub, i) ==
  IF i < 0 THEN -1
  ELSE IF SubSeq(s, i + 1, i + Len(sub)) = sub THEN i
  ELSE LastIndexFrom(s, sub, i - 1)

LastIndex(s, sub) == LastIndexFrom(s, sub, Len(s) - Len(sub))

\* strings.TrimLeft(s, cutset)
RECURSIVE TrimLeft(_, _)
TrimLeft(s, cutset) ==
  IF s # <<>> /\ Head(s) \in cutset THEN TrimLeft(Tail(s), cutset) ELSE s

\* strings.TrimRight(s, cutset)
RECURSIVE TrimRight(_, _)
TrimRight(s, cutset) ==
  IF s # <<>> /\ s[Len(s)] \in cutset
  THEN TrimRight(SubSeq(s, 1, Len(s) - 1), cutset)
  ELSE s

\* strings.Trim(s, cutset)
Trim(s, cutset) == TrimRight(TrimLeft(s, cutset), cutset)

\* unicode.IsSpace on the atoms of the model
WhiteSpace == {" ", "\t", "\r", "\n"}

\* strings.TrimSpace
TrimSpace(s) == Trim(s, WhiteSpace)

\* strings.SplitN(s, " ", 2): cut at the first blank, at most two parts
SplitN2(s) ==
  LET i == Index(s, " ")
  IN  IF i < 0 THEN <<s>> ELSE <<SliceTo(s, i), SliceFrom(s, i + 1)>>

\* strings.Fields: the maximal runs of non-space atoms
RECURSIVE FieldsAcc(_, _, _)
FieldsAcc(s, cur, acc) ==
  IF s = <<>> THEN (IF cur = <<>> THEN acc ELSE Append(acc, cur))
  ELSE IF Head(s) \in WhiteSpace
       THEN FieldsAcc(Tail(s), <<>>, IF cur = <<>> THEN acc ELSE Append(acc, cur))
       ELSE FieldsAcc(Tail(s), Append(cur, Head(s)), acc)

Fields(s) == FieldsAcc(s, <<>>, <<>>)

\* strings.ToUpper on one atom
ToUpperAtom(a) ==
  CASE a = "quit" -> "QUIT"
    [] a = "utf8" -> "UTF8"
    [] a = "on"   -> "ON"
    [] a = "a"    -> "A"
    [] a = "i"    -> "I"
    [] a = "s"    -> "S"
    [] a = "f"    -> "F"
    [] a = "x"    -> "X"
    [] a = "u"    -> "U"
    [] a = "p"    -> "P"
    [] OTHER      -> a

\* strings.ToUpper
ToUpper(s) == [i \in DOMAIN s |-> ToUpperAtom(s[i])]

\* strings.Replace(s, "//", "/", -1): non-overlapping, left to right
RECURSIVE ReplaceDoubleSlash(_)
ReplaceDoubleSlash(s) ==
  IF Len(s) < 2 THEN s
  ELSE IF s[1] = "/" /\ s[2] = "/"
       THEN <<"/">> \o ReplaceDoubleSlash(SubSeq(s, 3, Len(s)))
       ELSE <<s[1]>> \o ReplaceDoubleSlash(Tail(s))

\* filepath.Separator of the build (a Unix build)
Separator == "/"

\* strings.Replace(s, string(filepath.Separator), "/", -1)
ReplaceSeparator(s) == [i \in DOMAIN s |-> IF s[i] = Separator THEN "/" ELSE s[i]]

\* the elements of a path between its separators (empty ones included)
RECURSIVE SplitPath(_, _, _)
SplitPath(s, cur, acc) ==
  IF s = <<>> THEN Append(acc, cur)
  ELSE IF Head(s) = Separator
       THEN SplitPath(Tail(s), <<>>, Append(acc, cur))
       ELSE SplitPath(Tail(s), Append(cur, Head(s)), acc)

Components(s) == SplitPath(s, <<>>, <<>>)

DotDot == <<".", ".">>

\* filepath.Clean, the element stack: "." and empty elements are dropped, ".."
\* removes the element before it, is dropped at the root of a rooted path and
\* is kept at the start of a relative one
RECURSIVE CleanStack(_, _, _)
CleanStack(comps, rooted, stack) ==
  IF comps = <<>> THEN stack
  ELSE LET c == Head(comps)
           rest == Tail(comps)
       IN  IF c = <<>> \/ c = <<".">> THEN CleanStack(rest, rooted, stack)
           ELSE IF c = DotDot
                THEN IF stack # <<>> /\ stack[Len(stack)] # DotDot
                     THEN CleanStack(rest, rooted, SubSeq(stack, 1, Len(stack) - 1))
                     ELSE IF rooted THEN CleanStack(rest, rooted, stack)
                     ELSE CleanStack(rest, rooted, Append(stack, c))
                ELSE CleanStack(rest, rooted, Append(stack, c))

RECURSIVE JoinPath(_)
JoinPath(stack) ==
  IF stack = <<>> THEN <<>>
  ELSE IF Len(stack) = 1 THEN stack[1]
  ELSE stack[1] \o <<Separator>> \o JoinPath(Tail(stack))

\* filepath.Clean
Clean(path) ==
  IF path = <<>> THEN <<".">>
  ELSE LET rooted == path[1] = Separator
           stack == CleanStack(Components(path), rooted, <<>>)
       IN  IF rooted THEN <<Separator>> \o JoinPath(stack)
           ELSE IF stack = <<>> THEN <<".">>
           ELSE JoinPath(stack)

\* SubConn.buildPath with the relative branch joined but not cleaned
buildPathUncleaned(namePrefix, filename) ==
  LET fullPath ==
        IF Len(filename) > 0 /\ filename[1] = "/" THEN Clean(filename)
        ELSE IF Len(filename) > 0 /\ filename # <<"-", "a">>
             THEN namePrefix \o <<"/">> \o filename
             ELSE Clean(namePrefix)
  IN  ReplaceSeparator(ReplaceDoubleSlash(fullPath))

\* SubConn.buildPath: filename made absolute against the working directory
buildPath(namePrefix, filename) ==
  LET fullPath ==
        IF Len(filename) > 0 /\ filename[1] = "/" THEN Clean(filename)
        ELSE IF Len(filename) > 0 /\ filename # <<"-", "a">>
             THEN Clean(namePrefix \o <<"/">> \o filename)
             ELSE Clean(namePrefix)
  IN  ReplaceSeparator(ReplaceDoubleSlash(fullPath))

\* number of elements of a cleaned absolute path ("/" has none)
Depth(path) == Len(CleanStack(Components(path), TRUE, <<>>))

\* ---------------------------------------------------------------- integers

Digits == {"0", "1", "2", "3", "4", "5", "6", "7", "8", "9"}

DigitValue(d) ==
  CASE d = "0" -> 0 [] d = "1" -> 1 [] d = "2" -> 2 [] d = "3" -> 3 [] d = "4" -> 4
    [] d = "5" -> 5 [] d = "6" -> 6 [] d = "7" -> 7 [] d = "8" -> 8 [] d = "9" -> 9

RECURSIVE DecimalValue(_, _)
DecimalValue(ds, acc) ==
  IF ds = <<>> THEN acc ELSE DecimalValue(Tail(ds), 10 * acc + DigitValue(Head(ds)))

\* strconv.ParseInt(s, 10, 64): an optional sign, then one or more digits; the
\* value is 0 when the syntax is wrong.  (The lines of the model hold at most
\* two digits, so the range error of a value outside int64 does not arise.)
ParseInt(s) ==
  LET signed == s # <<>> /\ s[1] \in {"+", "-"}
      ds == IF signed THEN Tail(s) ELSE s
      ok == ds # <<>> /\ \A i \in DOMAIN ds : ds[i] \in Digits
  IN  IF ~ok THEN [val |-> 0, err |-> TRUE]
      ELSE [val |-> IF signed /\ s[1] = "-" THEN 0 - DecimalValue(ds, 0)
                    ELSE DecimalValue(ds, 0),
            err |-> FALSE]

\* ids of the client's unidirectional streams: 2, 6, 10, ... (id mod 4 = 2)
UniIDs == { 4 * k + 2 : k \in 0 .. (MaxUniStreams - 1) }

\* quic.StreamID(n): StreamID is an unsigned 64-bit integer, so a negative
\* int64 becomes an id of 2^63 or more, above every id a client can open; the
\* code only compares ids and uses them as map keys
StreamID(n) == IF n < 0 THEN 4 * MaxUniStreams + 2 - n ELSE n

\* ---------------------------------------------------------------- the state

VARIABLES
  subConn,             \* SubConn of each control stream: fields, position, replies
  runningSubConn,      \* Conn.runningSubConn
  structAccessMutex,   \* the tasks that hold Conn.structAccessMutex
  dataReceiveStreams,  \* Conn.dataReceiveStreams: key |-> id of the stored stream
  maxRequested,        \* largest id asked of getReceiveDataStream so far, -1: none
  sessionCloses,       \* calls of session.Close() made so far
  terminatedLogged,    \* "Connection Terminated" lines logged so far
  sessionDown,         \* the session is closed (by the peer or by Close)
  connPc,              \* position of the task running Conn.Serve
  crashed,             \* a panic has ended the process
  filename,            \* SpecPath: the argument of the last buildPath call
  fullPath,            \* SpecPath: its result
  listParam,           \* SpecListParam: the argument of the last parseListParam call
  listPath,            \* SpecListParam: its result
  listener,            \* Server.listener: "open" or "closed"
  ctx,                 \* Server.ctx: "live" or "done" (cancelled)
  serverPc,            \* position of the task running Server.Serve
  serveErr,            \* the error Server.Serve returned, "" while it runs
  shutdownPc,          \* position of the task running Server.Shutdown
  sessions             \* the state of each session the listener hands out

vars == <<subConn, runningSubConn, structAccessMutex, dataReceiveStreams, maxRequested,
          sessionCloses, terminatedLogged, sessionDown, connPc, crashed, filename,
          fullPath, listParam, listPath, listener, ctx, serverPc, serveErr, shutdownPc, sessions>>

connVars == <<runningSubConn, structAccessMutex, dataReceiveStreams, maxRequested,
              sessionCloses, terminatedLogged, sessionDown, connPc, crashed>>

pathVars == <<filename, fullPath, listParam, listPath>>

serverVars == <<listener, ctx, serverPc, serveErr, shutdownPc, sessions>>

SubConnIds == 1 .. MaxSubConn

\* the handler frame of a sub-connection that is not inside a blocking call
NoFrame == [cmd |-> "", params |-> <<>>, streamID |-> 0]

\* Conn.newSubConn: the fields of a fresh SubConn, its task about to read
newSubConn ==
  [pc          |-> "read",
   reqUser     |-> <<>>,
   user        |-> <<>>,
   renameFrom  |-> <<>>,
   lastFilePos |-> 0,
   appendData  |-> FALSE,
   closed      |-> FALSE,
   namePrefix  |-> <<"/">>,
   stream      |-> "open",  \* controlStream: "open", "closed", or "nil"
   frame       |-> NoFrame, \* locals of the handler blocked in the session
   command     |-> <<>>,    \* verb and parameter of the line being served
   param       |-> <<>>,
   exec        |-> "",      \* the handler whose Execute was invoked for it
   replies     |-> <<>>,    \* reply codes written for it, in order
   calls       |-> <<>>,    \* driver, auth and session calls made for it
   awaiting    |-> FALSE,   \* the last reply written was a 150
   passOk      |-> FALSE,   \* some PASS on this stream was answered 230
   announced   |-> <<>>,    \* the path the last 250 reply of CWD announced
   restOffset  |-> 0,       \* offset of the last REST answered 350 since a RETR
   appendAsked |-> FALSE,   \* an APPE or a REST answered 350 since a RETR or STOR
   staged      |-> <<>>]    \* the path of the last RNFR since an RNTO

\* a control stream the client has not opened
Absent == [newSubConn EXCEPT !.pc = "absent", !.stream = "nil"]

\* ------------------------------------------------------------ the registry

\* commands: the handler registered for each verb
commands ==
  [ALLO |-> "commandAllo", APPE |-> "commandAppe", CDUP |-> "commandCdup",
   CWD  |-> "commandCwd",  DELE |-> "commandDele", FEAT |-> "commandFeat",
   LIST |-> "commandList", NLST |-> "commandNlst", MDTM |-> "commandMdtm",
   MKD  |-> "commandMkd",  MODE |-> "commandMode", NOOP |-> "commandNoop",
   OPTS |-> "commandOpts", PASS |-> "commandPass", PWD  |-> "commandPwd",
   QUIT |-> "commandQuit", RETR |-> "commandRetr", REST |-> "commandRest",
   RNFR |-> "commandRnfr", RNTO |-> "commandRnto", RMD  |-> "commandRmd",
   SIZE |-> "commandSize", STOR |-> "commandStor", STRU |-> "commandStru",
   SYST |-> "commandSyst", TYPE |-> "commandType", USER |-> "commandUser",
   XCUP |-> "commandCdup", XCWD |-> "commandCwd",  XPWD |-> "commandPwd",
   XRMD |-> "commandRmd"]

\* the handlers whose RequireParam() returns true
RequireParam ==
  {"commandCwd", "commandDele", "commandMdtm", "commandMkd", "commandMode",
   "commandPass", "commandRetr", "commandRest", "commandRnfr", "commandRnto",
   "commandRmd", "commandSize", "commandStor", "commandStru", "commandUser"}

\* the handlers whose RequireAuth() returns true
RequireAuth ==
  {"commandAppe", "commandCdup", "commandCwd", "commandDele", "commandList",
   "commandNlst", "commandMdtm", "commandMkd", "commandMode", "commandPwd",
   "commandRetr", "commandRest", "commandRnfr", "commandRnto", "commandRmd",
   "commandSize", "commandStor", "commandStru", "commandSyst", "commandType"}

\* ------------------------------------------------------- replies and calls

\* SubConn.writeMessage: one reply on the control stream
writeMessage(c, code) ==
  [c EXCEPT !.replies = Append(@, code), !.awaiting = (code = 150)]

\* SubConn.writeMessageMultiline: one multi-line reply on the control stream
writeMessageMultiline(c, code) ==
  [c EXCEPT !.replies = Append(@, code), !.awaiting = (code = 150)]

\* a call of the driver, of Auth or of the session, noted with its arguments
Call(c, call) == [c EXCEPT !.calls = Append(@, call)]

\* SubConn.writeMessage of a reply whose text carries a path, noted with it
writeMessageText(c, code, text) ==
  Call(writeMessage(c, code), <<"writeMessage", code, text>>)

\* SubConn.writeMessage of a reply of a transfer, noted in the order it takes
\* among the calls on the data stream
writeMessageNoted(c, code) ==
  Call(writeMessage(c, code), <<"writeMessage", code>>)

\* a run-time panic of the handler (nil dereference, index out of range)
Panic(c) == [c EXCEPT !.pc = "panic"]

\* SubConn.Close: close the control stream and set closed
SubConnClose(c) == [c EXCEPT !.stream = "closed", !.closed = TRUE]

\* parseListParam: the parameter of LIST and NLST without its leading flags
RECURSIVE ListParamIndex(_, _, _)
ListParamIndex(param, fields, i) ==
  IF fields = <<>> \/ ~HasPrefix(Head(fields), <<"-">>) THEN i
  ELSE ListParamIndex(param, Tail(fields),
         LastIndex(param, <<" ">> \o Head(fields)) + Len(Head(fields)) + 1)

parseListParam(param) ==
  IF Len(param) = 0 THEN param
  ELSE TrimLeft(SliceFrom(param, ListParamIndex(param, Fields(param), 0)), {" "})

\* ------------------------------------------------------------ the handlers
\* Each handler maps the SubConn record c, the parameter and the answers env
\* of the driver and of Auth to the SubConn record it leaves.

commandAllo(c, param, env) == writeMessage(c, 202)

\* commandAppe.Execute that only replies
commandAppeReplyOnly(c, param, env) == writeMessage([c EXCEPT !.appendAsked = TRUE], 202)

commandAppe(c, param, env) ==
  writeMessage([c EXCEPT !.appendData = TRUE, !.appendAsked = TRUE], 202)

commandOpts(c, param, env) ==
  LET parts == Fields(param)
  IN  IF Len(parts) # 2 THEN writeMessage(c, 550)
      ELSE IF ToUpper(parts[1]) # <<"UTF8">> THEN writeMessage(c, 550)
      ELSE IF ToUpper(parts[2]) = <<"ON">> THEN writeMessage(c, 200)
      ELSE writeMessage(c, 550)

commandFeat(c, param, env) == writeMessageMultiline(c, 211)

\* Driver.ChangeDir: the tree the driver serves is MaxDepth deep
ChangeDirOk(path, env) == Depth(path) <= MaxDepth /\ env.drv = "ok"

\* commandCwd.Execute that keeps the client's parameter as working directory
commandCwdRawPrefix(c, param, env) ==
  LET path == buildPath(c.namePrefix, param)
      c1 == Call(c, <<"ChangeDir", path>>)
  IN  IF ChangeDirOk(path, env)
      THEN writeMessageText([c1 EXCEPT !.namePrefix = param, !.announced = path],
                            250, path)
      ELSE writeMessage(c1, 550)

\* commandCwd.Execute that changes the working directory whatever the driver
\* answers
commandCwdUnchecked(c, param, env) ==
  LET path == buildPath(c.namePrefix, param)
      c1 == Call(c, <<"ChangeDir", path>>)
  IN  IF ChangeDirOk(path, env)
      THEN writeMessageText([c1 EXCEPT !.namePrefix = path, !.announced = path],
                            250, path)
      ELSE writeMessage([c1 EXCEPT !.namePrefix = path], 550)

commandCwd(c, param, env) ==
  LET path == buildPath(c.namePrefix, param)
      c1 == Call(c, <<"ChangeDir", path>>)
  IN  IF ChangeDirOk(path, env)
      THEN writeMessageText([c1 EXCEPT !.namePrefix = path, !.announced = path],
                            250, path)
      ELSE writeMessage(c1, 550)

\* commandCdup.Execute that appends ".." to the working directory as it is
commandCdupAppended(c, param, env) ==
  LET path == c.namePrefix \o <<"/">> \o DotDot
      c1 == Call(c, <<"ChangeDir", path>>)
  IN  IF ChangeDirOk(path, env)
      THEN writeMessageText([c1 EXCEPT !.namePrefix = path, !.announced = path],
                            250, path)
      ELSE writeMessage(c1, 550)

commandCdup(c, param, env) == commandCwd(c, DotDot, env)

commandDele(c, param, env) ==
  LET c1 == Call(c, <<"DeleteFile", buildPath(c.namePrefix, param)>>)
  IN  IF env.drv = "ok" THEN writeMessage(c1, 250) ELSE writeMessage(c1, 550)

\* Conn.getNewSendDataStream, up to its Lock: the handler waits for the mutex
WaitSendDataStream(c, cmd) ==
  [c EXCEPT !.pc = "lockSend", !.frame = [NoFrame EXCEPT !.cmd = cmd]]

commandList(c, param, env) ==
  LET path == buildPath(c.namePrefix, parseListParam(param))
      c1 == Call(c, <<"Stat", path>>)
  IN  IF env.stat = "err" THEN writeMessage(c1, 550)
      ELSE IF env.stat = "nil" THEN c1
      ELSE IF env.stat = "dir" /\ env.drv = "err"
           THEN writeMessage(Call(c1, <<"ListDir", path>>), 550)
      ELSE WaitSendDataStream(
             IF env.stat = "dir" THEN Call(c1, <<"ListDir", path>>) ELSE c1, "LIST")

commandNlst(c, param, env) ==
  LET path == buildPath(c.namePrefix, parseListParam(param))
      c1 == Call(c, <<"Stat", path>>)
  IN  IF env.stat = "err" THEN writeMessage(c1, 550)
      ELSE IF env.stat = "nil" THEN Panic(c1)
      ELSE IF env.stat # "dir" THEN writeMessage(c1, 550)
      ELSE IF env.drv = "err" THEN writeMessage(Call(c1, <<"ListDir", path>>), 550)
      ELSE WaitSendDataStream(Call(c1, <<"ListDir", path>>), "NLST")

commandMdtm(c, param, env) ==
  LET c1 == Call(c, <<"Stat", buildPath(c.namePrefix, param)>>)
  IN  IF env.stat = "err" THEN writeMessage(c1, 450)
      ELSE IF env.stat = "nil" THEN Panic(c1)
      ELSE writeMessage(c1, 213)

commandMkd(c, param, env) ==
  LET c1 == Call(c, <<"MakeDir", buildPath(c.namePrefix, param)>>)
  IN  IF env.drv = "ok" THEN writeMessage(c1, 257) ELSE writeMessage(c1, 550)

commandMode(c, param, env) ==
  IF ToUpper(param) = <<"S">> THEN writeMessage(c, 200) ELSE writeMessage(c, 504)

commandNoop(c, param, env) == writeMessage(c, 200)

\* commandPass.Execute that forgets the requested user when it rejects
commandPassClearOnReject(c, param, env) ==
  LET c1 == Call(c, <<"CheckPasswd", c.reqUser, param>>)
  IN  IF env.auth = "err" THEN writeMessage(c1, 550)
      ELSE IF env.auth = "ok"
           THEN writeMessage([c1 EXCEPT !.user = c.reqUser, !.reqUser = <<>>,
                                        !.passOk = TRUE], 230)
           ELSE writeMessage([c1 EXCEPT !.reqUser = <<>>], 530)

commandPass(c, param, env) ==
  LET c1 == Call(c, <<"CheckPasswd", c.reqUser, param>>)
  IN  IF env.auth = "err" THEN writeMessage(c1, 550)
      ELSE IF env.auth = "ok"
           THEN writeMessage([c1 EXCEPT !.user = c.reqUser, !.reqUser = <<>>,
                                        !.passOk = TRUE], 230)
           ELSE writeMessage(c1, 530)

commandPwd(c, param, env) == writeMessageText(c, 257, c.namePrefix)

commandQuit(c, param, env) == SubConnClose(writeMessage(c, 221))

\* the deferred function of commandRetr.Execute
RetrDeferred(c) == [c EXCEPT !.lastFilePos = 0, !.appendData = FALSE]

\* commandRetr.Execute whose reset runs only where the transfer was started
commandRetrNoDefer(c, param, env) ==
  LET path == buildPath(c.namePrefix, param)
      c1 == Call(c, <<"GetFile", path, c.lastFilePos, env.drv>>)
  IN  IF env.drv = "ok" THEN WaitSendDataStream(c1, "RETR")
      ELSE writeMessage(c1, 551)

\* commandRetr.Execute whose transfer is left to run after the handler returns
commandRetrDetached(c, param, env) ==
  LET path == buildPath(c.namePrefix, param)
      c1 == Call(c, <<"GetFile", path, c.lastFilePos, env.drv>>)
  IN  IF env.drv = "ok"
      THEN [WaitSendDataStream(writeMessage(c1, 150), "RETR") EXCEPT !.pc = "returned"]
      ELSE RetrDeferred(writeMessage(c1, 551))

\* commandRetr.Execute, up to the Lock of getNewSendDataStream
commandRetr(c, param, env) ==
  LET path == buildPath(c.namePrefix, param)
      c1 == Call([c EXCEPT !.restOffset = 0, !.appendAsked = FALSE],
                 <<"GetFile", path, c.lastFilePos, env.drv>>)
  IN  IF env.drv = "ok" THEN WaitSendDataStream(c1, "RETR")
      ELSE RetrDeferred(writeMessage(c1, 551))

commandRest(c, param, env) ==
  LET n == ParseInt(param)
      c1 == [c EXCEPT !.lastFilePos = n.val]
  IN  IF n.err THEN writeMessage(c1, 551)
      ELSE writeMessage([c1 EXCEPT !.appendData = TRUE, !.restOffset = n.val,
                                   !.appendAsked = TRUE], 350)

\* commandRnfr.Execute that stashes the parameter as the client sent it
commandRnfrRaw(c, param, env) ==
  writeMessage([c EXCEPT !.renameFrom = param,
                         !.staged = buildPath(c.namePrefix, param)], 350)

commandRnfr(c, param, env) ==
  writeMessage([c EXCEPT !.renameFrom = buildPath(c.namePrefix, param),
                         !.staged = buildPath(c.namePrefix, param)], 350)

\* commandRnto.Execute that clears renameFrom only when the rename succeeded
commandRntoKeepOnError(c, param, env) ==
  LET toPath == buildPath(c.namePrefix, param)
      c1 == Call(c, <<"Rename", c.renameFrom, toPath, c.staged>>)
  IN  IF env.drv = "ok" THEN [writeMessage(c1, 250) EXCEPT !.renameFrom = <<>>]
      ELSE writeMessage(c1, 550)

commandRnto(c, param, env) ==
  LET toPath == buildPath(c.namePrefix, param)
      c1 == Call(c, <<"Rename", c.renameFrom, toPath, c.staged>>)
      c2 == IF env.drv = "ok" THEN writeMessage(c1, 250) ELSE writeMessage(c1, 550)
  IN  [c2 EXCEPT !.renameFrom = <<>>, !.staged = <<>>]

commandRmd(c, param, env) ==
  LET c1 == Call(c, <<"DeleteDir", buildPath(c.namePrefix, param)>>)
  IN  IF env.drv = "ok" THEN writeMessage(c1, 250) ELSE writeMessage(c1, 550)

commandSize(c, param, env) ==
  LET c1 == Call(c, <<"Stat", buildPath(c.namePrefix, param)>>)
  IN  IF env.stat = "err" THEN writeMessage(c1, 450)
      ELSE IF env.stat = "nil" THEN Panic(c1)
      ELSE writeMessage(c1, 213)

\* commandStor.Execute, up to the Lock of getReceiveDataStream: neither 501
\* reply ends the handler
commandStor(c, param, env) ==
  LET params == SplitN2(param)
      c1 == IF Len(params) # 2 THEN writeMessage(c, 501) ELSE c
      n == ParseInt(params[1])
      c2 == IF n.err \/ n.val < 0 \/ n.val % 4 # 2 THEN writeMessage(c1, 501) ELSE c1
      c3 == writeMessage(c2, 150)
  IN  [c3 EXCEPT !.pc = "lockRecv",
                 !.frame = [cmd |-> "STOR", params |-> params,
                            streamID |-> StreamID(n.val)]]

commandStru(c, param, env) ==
  IF ToUpper(param) = <<"F">> THEN writeMessage(c, 200) ELSE writeMessage(c, 504)

commandSyst(c, param, env) == writeMessage(c, 215)

commandType(c, param, env) ==
  IF ToUpper(param) = <<"A">> THEN writeMessage(c, 200)
  ELSE IF ToUpper(param) = <<"I">> THEN writeMessage(c, 200)
  ELSE writeMessage(c, 500)

commandUser(c, param, env) ==
  writeMessage([c EXCEPT !.reqUser = param], 331)

\* cmdObj.Execute(subConn, param): the method of the registered handler
Execute(h, c, param, env) ==
  CASE h = "commandAllo" -> commandAllo(c, param, env)
    [] h = "commandAppe" -> commandAppe(c, param, env)
    [] h = "commandCdup" -> commandCdup(c, param, env)
    [] h = "commandCwd"  -> commandCwd(c, param, env)
    [] h = "commandDele" -> commandDele(c, param, env)
    [] h = "commandFeat" -> commandFeat(c, param, env)
    [] h = "commandList" -> commandList(c, param, env)
    [] h = "commandNlst" -> commandNlst(c, param, env)
    [] h = "commandMdtm" -> commandMdtm(c, param, env)
    [] h = "commandMkd"  -> commandMkd(c, param, env)
    [] h = "commandMode" -> commandMode(c, param, env)
    [] h = "commandNoop" -> commandNoop(c, param, env)
    [] h = "commandOpts" -> commandOpts(c, param, env)
    [] h = "commandPass" -> commandPass(c, param, env)
    [] h = "commandPwd"  -> commandPwd(c, param, env)
    [] h = "commandQuit" -> commandQuit(c, param, env)
    [] h = "commandRetr" -> commandRetr(c, param, env)
    [] h = "commandRest" -> commandRest(c, param, env)
    [] h = "commandRnfr" -> commandRnfr(c, param, env)
    [] h = "commandRnto" -> commandRnto(c, param, env)
    [] h = "commandRmd"  -> commandRmd(c, param, env)
    [] h = "commandSize" -> commandSize(c, param, env)
    [] h = "commandStor" -> commandStor(c, param, env)
    [] h = "commandStru" -> commandStru(c, param, env)
    [] h = "commandSyst" -> commandSyst(c, param, env)
    [] h = "commandType" -> commandType(c, param, env)
    [] h = "commandUser" -> commandUser(c, param, env)

\* ----------------------------------------------------------- the dispatch

\* SubConn.parseLine: the verb and the trimmed parameter of a line
parseLine(line) ==
  LET params == SplitN2(Trim(line, {"\r", "\n"}))
  IN  IF Len(params) = 1 THEN <<params[1], <<>>>>
      ELSE <<params[1], TrimSpace(params[2])>>

\* the registry entry of a verb: commands[strings.ToUpper(command)], "" for nil
Lookup(command) ==
  LET verb == ToUpper(command)
  IN  IF Len(verb) = 1 /\ verb[1] \in DOMAIN commands THEN commands[verb[1]] ELSE ""

\* SubConn.receiveLine with the login test before the parameter test
receiveLineAuthFirst(c0, line, env) ==
  LET parsed == parseLine(line)
      command == parsed[1]
      param == parsed[2]
      c == [c0 EXCEPT !.command = command, !.param = param, !.pc = "returned"]
      cmdObj == Lookup(command)
  IN  IF cmdObj = "" THEN writeMessage(c, 502)
      ELSE IF cmdObj \in RequireAuth /\ c.user = <<>> THEN writeMessage(c, 530)
      ELSE IF cmdObj \in RequireParam /\ param = <<>> THEN writeMessage(c, 553)
      ELSE Execute(cmdObj, [c EXCEPT !.exec = cmdObj], param, env)

\* SubConn.receiveLine that asks for a login by reqUser instead of user
receiveLineReqUser(c0, line, env) ==
  LET parsed == parseLine(line)
      command == parsed[1]
      param == parsed[2]
      c == [c0 EXCEPT !.command = command, !.param = param, !.pc = "returned"]
      cmdObj == Lookup(command)
  IN  IF cmdObj = "" THEN writeMessage(c, 502)
      ELSE IF cmdObj \in RequireParam /\ param = <<>> THEN writeMessage(c, 553)
      ELSE IF cmdObj \in RequireAuth /\ c.reqUser = <<>> /\ c.user = <<>>
           THEN writeMessage(c, 530)
      ELSE Execute(cmdObj, [c EXCEPT !.exec = cmdObj], param, env)

\* SubConn.receiveLine: look the verb up, test parameter and login, execute
receiveLine(c0, line, env) ==
  LET parsed == parseLine(line)
      command == parsed[1]
      param == parsed[2]
      c == [c0 EXCEPT !.command = command, !.param = param, !.pc = "returned"]
      cmdObj == Lookup(command)
  IN  IF cmdObj = "" THEN writeMessage(c, 502)
      ELSE IF cmdObj \in RequireParam /\ param = <<>> THEN writeMessage(c, 553)
      ELSE IF cmdObj \in RequireAuth /\ c.user = <<>> THEN writeMessage(c, 530)
      ELSE Execute(cmdObj, [c EXCEPT !.exec = cmdObj], param, env)

\* ------------------------------------------------------- the client's lines

Line(verb, param) ==
  IF param = <<>> THEN <<verb, "\r", "\n">>
  ELSE <<verb, " ">> \o param \o <<"\r", "\n">>

\* the lines a client sends on a control stream in Spec
Lines ==
  { <<"\r", "\n">>, Line("FOO", <<>>), Line("FOO", <<"a">>),
    Line("USER", <<"u">>), Line("USER", <<>>),
    Line("PASS", <<"p">>), Line("PASS", <<>>),
    Line("QUIT", <<>>), Line("quit", <<>>),
    Line("NOOP", <<>>), Line("ALLO", <<>>), Line("SYST", <<>>), Line("FEAT", <<>>),
    Line("APPE", <<>>), Line("PWD", <<>>), Line("XPWD", <<>>),
    Line("OPTS", <<"utf8", " ", "on">>), Line("OPTS", <<"UTF8", " ", "OFF">>),
    Line("OPTS", <<"x">>), Line("OPTS", <<"x", " ", "ON">>),
    Line("TYPE", <<"a">>), Line("TYPE", <<"I">>), Line("TYPE", <<>>),
    Line("MODE", <<"S">>), Line("MODE", <<"x">>), Line("MODE", <<>>),
    Line("STRU", <<"f">>), Line("STRU", <<"x">>),
    Line("CWD", <<"a">>), Line("CWD", <<".", ".">>), Line("CWD", <<>>),
    Line("XCWD", <<"/", "a", "/", ".", ".", "/", "a">>),
    Line("CDUP", <<>>), Line("XCUP", <<>>),
    Line("DELE", <<"a">>), Line("MKD", <<"a">>), Line("RMD", <<"a">>),
    Line("XRMD", <<"a">>), Line("MDTM", <<"a">>), Line("SIZE", <<"a">>),
    Line("RNFR", <<"a">>), Line("RNTO", <<"/", "a">>), Line("RNTO", <<>>),
    Line("REST", <<"5">>), Line("REST", <<"x">>),
    Line("LIST", <<>>), Line("LIST", <<"-", "a">>), Line("LIST", <<"-", "l", " ", "a">>),
    Line("NLST", <<>>), Line("NLST", <<"a">>),
    Line("RETR", <<"a">>), Line("RETR", <<>>),
    Line("STOR", <<"2", " ", "a">>), Line("STOR", <<"6", " ", "a">>),
    Line("STOR", <<"5", " ", "a">>), Line("STOR", <<"x", " ", "a">>),
    Line("STOR", <<"-", "2", " ", "a">>), Line("STOR", <<"2">>),
    Line("STOR", <<"a">>), Line("STOR", <<>>) }

\* the lines a client sends on a control stream in SpecSession
SessionLines == { Line("NOOP", <<>>), Line("QUIT", <<>>) }

\* the lines a client sends in SpecTransfer: it logs in and transfers files on
\* its first control streams, and only quits on the others
TransferLines(s) ==
  IF s <= MaxTransferConn
  THEN { Line("USER", <<"u">>), Line("PASS", <<"p">>), Line("STOR", <<"6", " ", "a">>),
         Line("RETR", <<"a">>) }
  ELSE { Line("QUIT", <<>>) }

\* the lines a client sends in SpecStore: it logs in on its first two control
\* streams and stores through stream 6 on the first and through 2 or 6 on the
\* second; on the others it only quits
StoreLines(s) ==
  IF s = 1
  THEN { Line("USER", <<"u">>), Line("PASS", <<"p">>), Line("STOR", <<"6", " ", "a">>) }
  ELSE IF s = 2
  THEN { Line("USER", <<"u">>), Line("PASS", <<"p">>), Line("STOR", <<"2", " ", "a">>),
         Line("STOR", <<"6", " ", "a">>) }
  ELSE { Line("QUIT", <<>>) }

\* the lines a client sends in SpecDialogs: on its first control stream it
\* logs in and changes directory, rename mark and restart offset; on the next
\* ones it asks for the working directory without a login of their own; on
\* the others it only quits
DialogLines(s) ==
  IF s > MaxDialogConn THEN { Line("QUIT", <<>>) }
  ELSE IF s = 1
  THEN { Line("USER", <<"u">>), Line("PASS", <<"p">>), Line("CWD", <<"a">>),
         Line("RNFR", <<"a">>), Line("REST", <<"5">>) }
  ELSE { Line("PWD", <<>>), Line("NOOP", <<>>) }

\* the answers of the driver and of Auth that a handler can meet
Envs(h) ==
  [auth : IF h = "commandPass" THEN {"ok", "no", "err"} ELSE {"ok"},
   drv  : IF h \in {"commandCwd", "commandCdup", "commandDele", "commandMkd",
                    "commandRmd", "commandRnto", "commandRetr", "commandList",
                    "commandNlst"}
          THEN {"ok", "err"} ELSE {"ok"},
   stat : IF h \in {"commandList", "commandNlst", "commandMdtm", "commandSize"}
          THEN {"dir", "file", "nil", "err"} ELSE {"dir"}]

\* ------------------------------------------------- the sub-connection task

\* the notes on the line just served, dropped when Serve goes on
Forget(c) ==
  [c EXCEPT !.command = <<>>, !.param = <<>>, !.exec = "", !.replies = <<>>,
            !.calls = <<>>]

\* SubConn.Serve whose handlers keep user and namePrefix in the session, so
\* that every control stream of the session sees them
ServeReceiveLineShared(s, lines) ==
  /\ ~crashed
  /\ subConn[s].pc = "read"
  /\ subConn[s].stream = "open"
  /\ \E line \in lines :
       \E env \in Envs(Lookup(parseLine(line)[1])) :
         LET c == receiveLine(subConn[s], line, env)
         IN  subConn' = [t \in SubConnIds |->
               IF t = s THEN c
               ELSE IF subConn[t].pc = "absent" THEN subConn[t]
               ELSE [subConn[t] EXCEPT !.user = c.user, !.namePrefix = c.namePrefix]]
  /\ UNCHANGED <<connVars, pathVars, serverVars>>

\* SubConn.Serve: ReadString returns a line and receiveLine serves it, up to the
\* handler's return or to the session call it blocks in
ServeReceiveLine(s, lines) ==
  /\ ~crashed
  /\ subConn[s].pc = "read"
  /\ subConn[s].stream = "open"
  /\ \E line \in lines :
       \E env \in Envs(Lookup(parseLine(line)[1])) :
         subConn' = [subConn EXCEPT ![s] = receiveLine(subConn[s], line, env)]
  /\ UNCHANGED <<connVars, pathVars, serverVars>>

\* SubConn.Serve: ReadString fails (EOF from the client, or an error of the
\* closed session); the loop ends and Close() closes the control stream
ServeReadError(s) ==
  /\ ~crashed
  /\ subConn[s].pc = "read"
  /\ subConn[s].stream = "open"
  /\ subConn' = [subConn EXCEPT ![s] = [SubConnClose(subConn[s]) EXCEPT !.pc = "report"]]
  /\ UNCHANGED <<connVars, pathVars, serverVars>>

\* SubConn.Serve on a nil control stream: ReadString dereferences it
ServeReadNil(s) ==
  /\ ~crashed
  /\ subConn[s].pc = "read"
  /\ subConn[s].stream = "nil"
  /\ subConn' = [subConn EXCEPT ![s] = Panic(subConn[s])]
  /\ UNCHANGED <<connVars, pathVars, serverVars>>

\* SubConn.Serve after receiveLine returned: break when closed, else read on
ServeNext(s) ==
  /\ ~crashed
  /\ subConn[s].pc = "returned"
  /\ subConn' = [subConn EXCEPT ![s] =
       IF subConn[s].closed
       THEN [SubConnClose(Forget(subConn[s])) EXCEPT !.pc = "report"]
       ELSE [Forget(subConn[s]) EXCEPT !.pc = "read"]]
  /\ UNCHANGED <<connVars, pathVars, serverVars>>

\* Conn.Close: session.Close()
ConnClose ==
  /\ sessionCloses' = sessionCloses + 1
  /\ sessionDown' = TRUE

\* Conn.ReportSubConnFinsihed that closes the session at every report
ReportSubConnFinsihedCloseAlways(s) ==
  /\ ~crashed
  /\ subConn[s].pc \in {"report", "panic"}
  /\ structAccessMutex = {}
  /\ runningSubConn' = runningSubConn - 1
  /\ ConnClose
  /\ terminatedLogged' = terminatedLogged + 1
  /\ structAccessMutex' = IF runningSubConn - 1 = 0 THEN {s} ELSE {}
  /\ crashed' = (subConn[s].pc = "panic")
  /\ subConn' = [subConn EXCEPT ![s].pc = "done"]
  /\ UNCHANGED <<dataReceiveStreams, maxRequested, connPc, pathVars, serverVars>>

\* Conn.ReportSubConnFinsihed, deferred by SubConn.Serve (it also runs while a
\* panic unwinds, after which the process ends): Lock, decrement, and at zero
\* Close and return with the mutex still locked
ReportSubConnFinsihed(s) ==
  /\ ~crashed
  /\ subConn[s].pc \in {"report", "panic"}
  /\ structAccessMutex = {}
  /\ runningSubConn' = runningSubConn - 1
  /\ IF runningSubConn - 1 = 0
     THEN /\ ConnClose
          /\ terminatedLogged' = terminatedLogged + 1
          /\ structAccessMutex' = {s}
     ELSE /\ structAccessMutex' = {}
          /\ UNCHANGED <<sessionCloses, sessionDown, terminatedLogged>>
  /\ crashed' = (subConn[s].pc = "panic")
  /\ subConn' = [subConn EXCEPT ![s].pc = "done"]
  /\ UNCHANGED <<dataReceiveStreams, maxRequested, connPc, pathVars, serverVars>>

\* ------------------------------------------------------ outbound transfers

\* SubConn.sendOutofbandData: write the listing, close the stream, reply 226
sendOutofbandData(c) ==
  writeMessageNoted(Call(Call(c, <<"stream.Write">>), <<"stream.Close">>), 226)

\* SubConn.sendOutofBandDataWriter that leaves the stream open when the copy
\* fails
sendOutofBandDataWriterOpenOnError(c, copy) ==
  LET c1 == Call([c EXCEPT !.lastFilePos = 0], <<"io.Copy">>)
  IN  IF copy = "err" THEN c1
      ELSE Call(writeMessageNoted(c1, 226), <<"stream.Close">>)

\* SubConn.sendOutofBandDataWriter: copy the file, reply 226, close the stream;
\* on a copy error close the stream and return the error
sendOutofBandDataWriter(c, copy) ==
  LET c1 == Call([c EXCEPT !.lastFilePos = 0], <<"io.Copy">>)
  IN  IF copy = "err" THEN Call(c1, <<"stream.Close">>)
      ELSE Call(writeMessageNoted(c1, 226), <<"stream.Close">>)

\* the handler finished: it is back in Serve
Return(c) == [c EXCEPT !.pc = "returned", !.frame = NoFrame]

\* commandList.Execute and commandNlst.Execute after getNewSendDataStream
ListAfterStream(c, open) ==
  IF open = "err" THEN Return(writeMessage(c, 425))
  ELSE Return(sendOutofbandData(writeMessageNoted(c, 150)))

\* commandRetr.Execute that closes the reader only after a transfer
RetrAfterStreamLeakOn425(c, open, copy) ==
  LET c1 == Call(c, <<"OpenUniStreamSync", open>>)
  IN  IF open = "err" THEN Return(RetrDeferred(writeMessage(c1, 425)))
      ELSE LET c3 == sendOutofBandDataWriter(writeMessageNoted(c1, 150), copy)
               c4 == IF copy = "err" THEN writeMessage(c3, 551) ELSE c3
           IN  Return(RetrDeferred(Call(c4, <<"data.Close">>)))

\* commandRetr.Execute after getNewSendDataStream, with its deferred calls
RetrAfterStream(c, open, copy) ==
  LET c1 == Call(c, <<"OpenUniStreamSync", open>>)
      c2 == IF open = "err" THEN writeMessage(c1, 425)
            ELSE LET c3 == sendOutofBandDataWriter(writeMessageNoted(c1, 150), copy)
                 IN  IF copy = "err" THEN writeMessage(c3, 551) ELSE c3
  IN  Return(RetrDeferred(Call(c2, <<"data.Close">>)))

\* Conn.getNewSendDataStream: Lock
getNewSendDataStreamLock(s) ==
  /\ ~crashed
  /\ subConn[s].pc = "lockSend"
  /\ structAccessMutex = {}
  /\ structAccessMutex' = {s}
  /\ subConn' = [subConn EXCEPT ![s].pc = "openSend"]
  /\ UNCHANGED <<runningSubConn, dataReceiveStreams, maxRequested, sessionCloses,
                 terminatedLogged,
                 sessionDown, connPc, crashed, pathVars, serverVars>>

\* Conn.getNewSendDataStream: OpenUniStreamSync returns (an error when the
\* session is closed), the mutex is unlocked and the handler runs to its end
getNewSendDataStream(s) ==
  /\ ~crashed
  /\ subConn[s].pc = "openSend"
  /\ structAccessMutex' = structAccessMutex \ {s}
  /\ LET open == IF sessionDown THEN "err" ELSE "ok"
     IN  \E copy \in {"ok", "err"} :
           subConn' = [subConn EXCEPT ![s] =
             IF subConn[s].frame.cmd = "RETR"
             THEN RetrAfterStream(subConn[s], open, copy)
             ELSE ListAfterStream(Call(subConn[s], <<"OpenUniStreamSync", open>>), open)]
  /\ UNCHANGED <<runningSubConn, dataReceiveStreams, maxRequested, sessionCloses,
                 terminatedLogged,
                 sessionDown, connPc, crashed, pathVars, serverVars>>

\* -------------------------------------------------------- inbound transfers

\* commandStor.Execute after getReceiveDataStream returned stream (-1 for nil)
\* and err: the 425 reply does not end the handler; params[1] is read next
StorAfterStream(c, stream, err, put) ==
  LET c1 == Call(c, <<"getReceiveDataStream", c.frame.streamID, stream, err>>)
      c2 == IF err THEN writeMessage(c1, 425) ELSE c1
  IN  IF Len(c.frame.params) < 2 THEN [Panic(c2) EXCEPT !.frame = NoFrame]
      ELSE LET targetPath == buildPath(c.namePrefix, c.frame.params[2])
               c3 == Call(c2, <<"PutFile", targetPath, stream, c.appendData,
                                c.appendAsked>>)
               c4 == IF put = "ok" THEN writeMessage(c3, 226) ELSE writeMessage(c3, 450)
           IN  Return([c4 EXCEPT !.appendData = FALSE, !.appendAsked = FALSE])

\* Conn.getReceiveDataStream: Lock and look the id up in dataReceiveStreams;
\* a stored stream is returned at once, else the accept loop starts
getReceiveDataStreamLock(s) ==
  /\ ~crashed
  /\ subConn[s].pc = "lockRecv"
  /\ structAccessMutex = {}
  /\ LET streamID == subConn[s].frame.streamID
     IN  IF streamID \in DOMAIN dataReceiveStreams
         THEN /\ \E put \in {"ok", "err"} :
                   subConn' = [subConn EXCEPT ![s] =
                     StorAfterStream(subConn[s], dataReceiveStreams[streamID], FALSE, put)]
              /\ UNCHANGED structAccessMutex
         ELSE /\ subConn' = [subConn EXCEPT ![s].pc = "acceptRecv"]
              /\ structAccessMutex' = {s}
  /\ maxRequested' = IF subConn[s].frame.streamID > maxRequested
                     THEN subConn[s].frame.streamID ELSE maxRequested
  /\ UNCHANGED <<runningSubConn, dataReceiveStreams, sessionCloses, terminatedLogged,
                 sessionDown, connPc, crashed, pathVars, serverVars>>

\* the streams AcceptUniStream has handed out
AcceptedUni == Range(dataReceiveStreams)

\* the accept loop returning any stream that is not below the wanted id
AcceptTurnAny(id, streamID) ==
  IF id >= streamID THEN "found" ELSE "again"

\* the outcome of one turn of the accept loop for an accepted id and the
\* wanted id: "err" (id too large), "found" or "again"
AcceptTurn(id, streamID) ==
  IF id > streamID THEN "err" ELSE IF id = streamID THEN "found" ELSE "again"

\* Conn.getReceiveDataStream that stores only the stream it was asked for
getReceiveDataStreamAcceptDropOthers(s) ==
  /\ ~crashed
  /\ subConn[s].pc = "acceptRecv"
  /\ IF sessionDown
     THEN /\ \E put \in {"ok", "err"} :
               subConn' = [subConn EXCEPT ![s] =
                 StorAfterStream(Call(subConn[s], <<"AcceptUniStream", -1>>), -1, TRUE, put)]
          /\ structAccessMutex' = structAccessMutex \ {s}
          /\ UNCHANGED dataReceiveStreams
     ELSE \E id \in UniIDs \ AcceptedUni :
            LET turn == AcceptTurn(id, subConn[s].frame.streamID)
                c == Call(subConn[s], <<"AcceptUniStream", id>>)
            IN  /\ dataReceiveStreams' = IF turn = "found"
                                         THEN (id :> id) @@ dataReceiveStreams
                                         ELSE dataReceiveStreams
                /\ IF turn = "again"
                   THEN /\ subConn' = [subConn EXCEPT ![s] = c]
                        /\ UNCHANGED structAccessMutex
                   ELSE /\ \E put \in {"ok", "err"} :
                             subConn' = [subConn EXCEPT ![s] =
                               StorAfterStream(c, IF turn = "err" THEN -1 ELSE id,
                                               turn = "err", put)]
                        /\ structAccessMutex' = structAccessMutex \ {s}
  /\ UNCHANGED <<runningSubConn, maxRequested, sessionCloses, terminatedLogged,
                 sessionDown, connPc, crashed, pathVars, serverVars>>

\* Conn.getReceiveDataStream: one turn of the accept loop.  AcceptUniStream
\* fails when the session is closed; else it returns a stream the client has
\* opened, which is stored under its id and compared with the wanted id.
\* Each AcceptUniStream is noted among the calls of the line
getReceiveDataStreamAccept(s) ==
  /\ ~crashed
  /\ subConn[s].pc = "acceptRecv"
  /\ IF sessionDown
     THEN /\ \E put \in {"ok", "err"} :
               subConn' = [subConn EXCEPT ![s] =
                 StorAfterStream(Call(subConn[s], <<"AcceptUniStream", -1>>), -1, TRUE, put)]
          /\ structAccessMutex' = structAccessMutex \ {s}
          /\ UNCHANGED dataReceiveStreams
     ELSE \E id \in UniIDs \ AcceptedUni :
            LET turn == AcceptTurn(id, subConn[s].frame.streamID)
                c == Call(subConn[s], <<"AcceptUniStream", id>>)
            IN  /\ dataReceiveStreams' = (id :> id) @@ dataReceiveStreams
                /\ IF turn = "again"
                   THEN /\ subConn' = [subConn EXCEPT ![s] = c]
                        /\ UNCHANGED structAccessMutex
                   ELSE /\ \E put \in {"ok", "err"} :
                             subConn' = [subConn EXCEPT ![s] =
                               StorAfterStream(c, IF turn = "err" THEN -1 ELSE id,
                                               turn = "err", put)]
                        /\ structAccessMutex' = structAccessMutex \ {s}
  /\ UNCHANGED <<runningSubConn, maxRequested, sessionCloses, terminatedLogged,
                 sessionDown, connPc, crashed, pathVars, serverVars>>

\* the peer closes the session, or it times out
SessionLost ==
  /\ ~crashed
  /\ ~sessionDown
  /\ sessionDown' = TRUE
  /\ UNCHANGED <<subConn, runningSubConn, structAccessMutex, dataReceiveStreams,
                 maxRequested,
                 sessionCloses, terminatedLogged, connPc, crashed, pathVars, serverVars>>

\* ------------------------------------------------------- the session task

\* the next control stream of the session, if the client may open one more
FreeSlots == { s \in SubConnIds : subConn[s].pc = "absent" }

NextSlot == CHOOSE s \in FreeSlots : \A t \in FreeSlots : s <= t

\* Conn.Serve: factory.NewDriver() for the next control stream; when it fails
\* the session is closed and Serve returns
ConnServeNewDriver ==
  /\ ~crashed
  /\ connPc = "driver"
  /\ \E driver \in {"ok", "err"} :
       IF driver = "ok"
       THEN connPc' = "accept" /\ UNCHANGED <<sessionCloses, sessionDown>>
       ELSE connPc' = "returned" /\ ConnClose
  /\ UNCHANGED <<subConn, runningSubConn, structAccessMutex, dataReceiveStreams,
                 maxRequested,
                 terminatedLogged, crashed, pathVars, serverVars>>

\* Conn.Serve: AcceptStream returns a control stream the client opened, and
\* newSubConn builds its SubConn
ConnServeAcceptStream ==
  /\ ~crashed
  /\ connPc = "accept"
  /\ ~sessionDown
  /\ FreeSlots # {}
  /\ subConn' = [subConn EXCEPT ![NextSlot] = [newSubConn EXCEPT !.pc = "new"]]
  /\ connPc' = "lock"
  /\ UNCHANGED <<runningSubConn, structAccessMutex, dataReceiveStreams, maxRequested,
                 sessionCloses, terminatedLogged, sessionDown, crashed, pathVars, serverVars>>

\* Conn.Serve: AcceptStream fails with an error other than "NO_ERROR"; the
\* session is closed and Serve returns
ConnServeAcceptError ==
  /\ ~crashed
  /\ connPc = "accept"
  /\ sessionDown
  /\ connPc' = "returned"
  /\ ConnClose
  /\ UNCHANGED <<subConn, runningSubConn, structAccessMutex, dataReceiveStreams,
                 maxRequested,
                 terminatedLogged, crashed, pathVars, serverVars>>

\* Conn.Serve: AcceptStream fails with the error "NO_ERROR"; Serve goes on and
\* newSubConn builds a SubConn on the nil stream
ConnServeAcceptNoError ==
  /\ ~crashed
  /\ connPc = "accept"
  /\ sessionDown
  /\ FreeSlots # {}
  /\ subConn' = [subConn EXCEPT ![NextSlot] =
                   [newSubConn EXCEPT !.pc = "new", !.stream = "nil"]]
  /\ connPc' = "lock"
  /\ UNCHANGED <<runningSubConn, structAccessMutex, dataReceiveStreams, maxRequested,
                 sessionCloses, terminatedLogged, sessionDown, crashed, pathVars, serverVars>>

\* Conn.Serve that starts the sub-connection task without counting it
ConnServeStartUncounted ==
  /\ ~crashed
  /\ connPc = "lock"
  /\ structAccessMutex = {}
  /\ runningSubConn' = runningSubConn
  /\ subConn' = [s \in SubConnIds |->
                   IF subConn[s].pc = "new" THEN [subConn[s] EXCEPT !.pc = "read"]
                   ELSE subConn[s]]
  /\ connPc' = "driver"
  /\ UNCHANGED <<structAccessMutex, dataReceiveStreams, maxRequested, sessionCloses,
                 terminatedLogged,
                 sessionDown, crashed, pathVars, serverVars>>

\* Conn.Serve that counts the sub-connection without taking the mutex
ConnServeStartNoLock ==
  /\ ~crashed
  /\ connPc = "lock"
  /\ runningSubConn' = runningSubConn + 1
  /\ subConn' = [s \in SubConnIds |->
                   IF subConn[s].pc = "new" THEN [subConn[s] EXCEPT !.pc = "read"]
                   ELSE subConn[s]]
  /\ connPc' = "driver"
  /\ UNCHANGED <<structAccessMutex, dataReceiveStreams, maxRequested, sessionCloses,
                 terminatedLogged,
                 sessionDown, crashed, pathVars, serverVars>>

\* Conn.Serve: Lock, runningSubConn++, Unlock, go subConn.Serve()
ConnServeStart ==
  /\ ~crashed
  /\ connPc = "lock"
  /\ structAccessMutex = {}
  /\ runningSubConn' = runningSubConn + 1
  /\ subConn' = [s \in SubConnIds |->
                   IF subConn[s].pc = "new" THEN [subConn[s] EXCEPT !.pc = "read"]
                   ELSE subConn[s]]
  /\ connPc' = "driver"
  /\ UNCHANGED <<structAccessMutex, dataReceiveStreams, maxRequested, sessionCloses,
                 terminatedLogged,
                 sessionDown, crashed, pathVars, serverVars>>

\* ------------------------------------------------------------ path requests

PathAtoms == {"/", ".", "a", "-"}

\* the filenames of at most n atoms
Filenames(n) == UNION { [1 .. k -> PathAtoms] : k \in 0 .. n }

\* a handler calls buildPath on a client's filename
PathBuild ==
  /\ fullPath = <<>>
  /\ \E f \in Filenames(MaxLen) :
       /\ filename' = f
       /\ fullPath' = buildPath(subConn[1].namePrefix, f)
  /\ UNCHANGED <<subConn, connVars, serverVars, listParam, listPath>>

\* commandCwd.Execute: the driver accepts the path, which becomes namePrefix
PathAdopt ==
  /\ fullPath # <<>>
  /\ Len(fullPath) <= MaxPrefixLen
  /\ subConn' = [subConn EXCEPT ![1].namePrefix = fullPath]
  /\ filename' = <<>>
  /\ fullPath' = <<>>
  /\ UNCHANGED <<connVars, serverVars, listParam, listPath>>

\* any other handler: the path goes to the driver, namePrefix stays
PathDrop ==
  /\ fullPath # <<>>
  /\ filename' = <<>>
  /\ fullPath' = <<>>
  /\ UNCHANGED <<subConn, connVars, serverVars, listParam, listPath>>

\* ------------------------------------------------------- LIST parameters

ListAtoms == {"-", "a", " "}

\* the parameters of at most n atoms
ListParams(n) == UNION { [1 .. k -> ListAtoms] : k \in 0 .. n }

\* commandList.Execute and commandNlst.Execute call parseListParam on the
\* parameter of the line
ListParse ==
  /\ \E p \in ListParams(MaxListLen) :
       /\ listParam' = p
       /\ listPath' = parseListParam(p)
  /\ UNCHANGED <<subConn, connVars, serverVars, filename, fullPath>>

\* ------------------------------------------------------------ the acceptor

SessionIds == 1 .. MaxSessions

\* Server.Serve has stored the listener and the context and enters its loop
ServerServing ==
  /\ listener = "open"
  /\ ctx = "live"
  /\ serverPc = "accept"
  /\ serveErr = ""
  /\ shutdownPc = "idle"
  /\ sessions = [id \in SessionIds |-> "none"]

\* Server.Serve: listener.Accept() returns a session a client has opened
ServerAccept ==
  /\ serverPc = "accept"
  /\ listener = "open"
  /\ \E id \in SessionIds :
       /\ sessions[id] = "none"
       /\ sessions' = [sessions EXCEPT ![id] = "accepted"]
  /\ serverPc' = "driver"
  /\ UNCHANGED <<listener, ctx, serveErr, shutdownPc, subConn, connVars, pathVars>>

\* Server.Serve: listener.Accept() fails, with the error of the closed
\* listener or with a network error that is temporary or not.  A cancelled
\* context returns ErrServerClosed; else a temporary error goes on and any
\* other error is returned
ServerAcceptError ==
  /\ serverPc = "accept"
  /\ \E temporary \in IF listener = "closed" THEN {FALSE} ELSE BOOLEAN :
       IF ctx = "done"
       THEN serverPc' = "returned" /\ serveErr' = "ErrServerClosed"
       ELSE IF temporary
            THEN UNCHANGED <<serverPc, serveErr>>
            ELSE serverPc' = "returned" /\ serveErr' = "listener error"
  /\ UNCHANGED <<listener, ctx, shutdownPc, sessions, subConn, connVars, pathVars>>

\* Server.Serve: Factory.NewDriver() for the accepted session; on an error
\* quicSession.Close(), else newConn and go ftpConn.Serve()
ServerNewDriver ==
  /\ serverPc = "driver"
  /\ \E driver \in {"ok", "err"} :
       sessions' = [id \in SessionIds |->
                      IF sessions[id] = "accepted"
                      THEN IF driver = "ok" THEN "serving" ELSE "closed"
                      ELSE sessions[id]]
  /\ serverPc' = "accept"
  /\ UNCHANGED <<listener, ctx, serveErr, shutdownPc, subConn, connVars, pathVars>>

\* a served session ends: the peer closes it, or its Conn does
SessionEnds(id) ==
  /\ sessions[id] = "serving"
  /\ sessions' = [sessions EXCEPT ![id] = "closed"]
  /\ UNCHANGED <<listener, ctx, serverPc, serveErr, shutdownPc, subConn, connVars,
                 pathVars>>

\* Server.Shutdown: server.cancel()
ServerShutdownCancel ==
  /\ shutdownPc = "idle"
  /\ ctx' = "done"
  /\ shutdownPc' = "cancelled"
  /\ UNCHANGED <<listener, serverPc, serveErr, sessions, subConn, connVars, pathVars>>

\* Server.Shutdown: server.listener.Close().  Shutdown makes no call on a
\* session or a Conn; the transport's listener, when closed, either leaves
\* the sessions it has handed out open or closes them all
ServerShutdownClose ==
  /\ shutdownPc = "cancelled"
  /\ listener' = "closed"
  /\ shutdownPc' = "done"
  /\ \E closesSessions \in BOOLEAN :
       sessions' = [id \in SessionIds |->
                      IF closesSessions /\ sessions[id] \in {"accepted", "serving"}
                      THEN "closed" ELSE sessions[id]]
  /\ UNCHANGED <<ctx, serverPc, serveErr, subConn, connVars, pathVars>>

\* ------------------------------------------------------- the specifications

\* Server.newConn and a first control stream accepted by Conn.Serve, which
\* then waits in AcceptStream: one FTP dialog on one control stream
Init ==
  /\ subConn = [s \in SubConnIds |-> IF s = 1 THEN newSubConn ELSE Absent]
  /\ runningSubConn = 1
  /\ structAccessMutex = {}
  /\ dataReceiveStreams = <<>>
  /\ maxRequested = -1
  /\ sessionCloses = 0
  /\ terminatedLogged = 0
  /\ sessionDown = FALSE
  /\ connPc = "accept"
  /\ crashed = FALSE
  /\ filename = <<>>
  /\ fullPath = <<>>
  /\ listParam = <<>>
  /\ listPath = <<>>
  /\ ServerServing

Next ==
  \/ ServeReceiveLine(1, Lines)
  \/ ServeReadError(1)
  \/ ServeNext(1)
  \/ ReportSubConnFinsihed(1)
  \/ getNewSendDataStreamLock(1)
  \/ getNewSendDataStream(1)
  \/ getReceiveDataStreamLock(1)
  \/ getReceiveDataStreamAccept(1)
  \/ SessionLost

Spec == Init /\ [][Next]_vars

\* Server.newConn: a fresh Conn whose Serve task starts
InitSession ==
  /\ subConn = [s \in SubConnIds |-> Absent]
  /\ runningSubConn = 0
  /\ structAccessMutex = {}
  /\ dataReceiveStreams = <<>>
  /\ maxRequested = -1
  /\ sessionCloses = 0
  /\ terminatedLogged = 0
  /\ sessionDown = FALSE
  /\ connPc = "driver"
  /\ crashed = FALSE
  /\ filename = <<>>
  /\ fullPath = <<>>
  /\ listParam = <<>>
  /\ listPath = <<>>
  /\ ServerServing

NextSession ==
  \/ ConnServeNewDriver
  \/ ConnServeAcceptStream
  \/ ConnServeAcceptError
  \/ ConnServeAcceptNoError
  \/ ConnServeStart
  \/ SessionLost
  \/ \E s \in SubConnIds :
       \/ ServeReceiveLine(s, SessionLines)
       \/ ServeReadError(s)
       \/ ServeReadNil(s)
       \/ ServeNext(s)
       \/ ReportSubConnFinsihed(s)

SpecSession == InitSession /\ [][NextSession]_vars

\* the steps of the session's tasks that need nothing from the client: a
\* driver is built, a task that waits for the mutex gets it when it is free
\* again and again, a sub-connection gets on after a handler returned, and
\* once the session is closed AcceptStream and ReadString fail
SessionFairness ==
  /\ WF_vars(ConnServeNewDriver)
  /\ WF_vars(ConnServeAcceptError \/ ConnServeAcceptNoError)
  /\ SF_vars(ConnServeStart)
  /\ \A s \in SubConnIds :
       /\ WF_vars(ServeNext(s))
       /\ WF_vars(sessionDown /\ ServeReadError(s))
       /\ WF_vars(ServeReadNil(s))
       /\ SF_vars(ReportSubConnFinsihed(s))

SpecSessionFair == SpecSession /\ SessionFairness

NextPath == PathBuild \/ PathAdopt \/ PathDrop

SpecPath == Init /\ [][NextPath]_vars

NextListParam == ListParse

SpecListParam == Init /\ [][NextListParam]_vars

\* a session whose sub-connections transfer files side by side
NextTransfer ==
  \/ ConnServeNewDriver
  \/ ConnServeAcceptStream
  \/ ConnServeAcceptError
  \/ ConnServeAcceptNoError
  \/ ConnServeStart
  \/ SessionLost
  \/ \E s \in SubConnIds :
       \/ ServeReceiveLine(s, TransferLines(s))
       \/ ServeReadError(s)
       \/ ServeReadNil(s)
       \/ ServeNext(s)
       \/ ReportSubConnFinsihed(s)
       \/ getNewSendDataStreamLock(s)
       \/ getNewSendDataStream(s)
       \/ getReceiveDataStreamLock(s)
       \/ getReceiveDataStreamAccept(s)

SpecTransfer == InitSession /\ [][NextTransfer]_vars

\* the steps of the session's tasks that need nothing from the client: a
\* task that waits for the mutex gets it when it is free again and again
\* (sync.Mutex hands over to a starving waiter), a driver call, a reply and
\* the opening of an outbound stream complete, and AcceptUniStream fails once
\* the session is closed.  A line of the client, an inbound stream of the client and the end
\* of the session are not owed to the server
TransferFairness ==
  /\ WF_vars(ConnServeNewDriver)
  /\ SF_vars(ConnServeStart)
  /\ \A s \in SubConnIds :
       /\ WF_vars(ServeNext(s))
       /\ SF_vars(ReportSubConnFinsihed(s))
       /\ SF_vars(getNewSendDataStreamLock(s))
       /\ WF_vars(getNewSendDataStream(s))
       /\ SF_vars(getReceiveDataStreamLock(s))
       /\ WF_vars(sessionDown /\ getReceiveDataStreamAccept(s))

SpecTransferFair == SpecTransfer /\ TransferFairness

\* a session whose control streams each carry a dialog of their own
NextDialogs ==
  \/ ConnServeNewDriver
  \/ ConnServeAcceptStream
  \/ ConnServeStart
  \/ \E s \in SubConnIds :
       \/ ServeReceiveLine(s, DialogLines(s))
       \/ ServeReadError(s)
       \/ ServeNext(s)
       \/ ReportSubConnFinsihed(s)

SpecDialogs == InitSession /\ [][NextDialogs]_vars

\* a session whose control streams store files through inbound streams
NextStore ==
  \/ ConnServeNewDriver
  \/ ConnServeAcceptStream
  \/ ConnServeStart
  \/ \E s \in SubConnIds :
       \/ ServeReceiveLine(s, StoreLines(s))
       \/ ServeReadError(s)
       \/ ServeNext(s)
       \/ ReportSubConnFinsihed(s)
       \/ getReceiveDataStreamLock(s)
       \/ getReceiveDataStreamAccept(s)

SpecStore == InitSession /\ [][NextStore]_vars

NextServer ==
  \/ ServerAccept
  \/ ServerAcceptError
  \/ ServerNewDriver
  \/ \E id \in SessionIds : SessionEnds(id)
  \/ ServerShutdownCancel
  \/ ServerShutdownClose

SpecServer == InitSession /\ [][NextServer]_vars

\* ---------------------------------------------------------------- claims

\* the sub-connections whose task exists
Live == { s \in SubConnIds : subConn[s].pc # "absent" }

\* the calls of operation op noted for the line sub-connection s serves
CallsOf(s, op) ==
  { subConn[s].calls[i] : i \in { j \in DOMAIN subConn[s].calls :
                                   subConn[s].calls[j][1] = op } }

\* C1: the Execute of a handler whose RequireAuth() is true is invoked only on
\* a control stream on which an earlier PASS was answered 230
C1_AuthOnlyAfterPass ==
  \A s \in Live : subConn[s].exec \in RequireAuth => subConn[s].passOk

C1_Witness ==
  \E s \in Live : subConn[s].exec = "commandRetr" /\ subConn[s].passOk

\* the replies the claim C2 allows for the line a handler has returned from
C2_Allowed(c) ==
  IF c.exec \in {"commandRetr", "commandList", "commandNlst"}
  THEN \/ c.replies = <<150, 226>>
       \/ Len(c.replies) = 1 /\ c.replies[1] >= 400
  ELSE Len(c.replies) = 1

\* C2: every line receiveLine has served got exactly one reply, except RETR,
\* LIST and NLST: 150 then 226 on success, one 4xx/5xx reply on failure
C2_OneReplyPerLine ==
  \A s \in Live : subConn[s].pc = "returned" => C2_Allowed(subConn[s])

\* C3: once the session has been closed runningSubConn is 0, and Close is
\* invoked at most once in the life of the session
C3_ClosedOnceAtZero ==
  /\ sessionCloses >= 1 => runningSubConn = 0
  /\ sessionCloses <= 1

\* C4: getReceiveDataStream(wantedID) returns the stream whose id is wantedID,
\* or an error and no stream; never a stream with another id
C4_WantedStreamOrError ==
  \A s \in Live : \A call \in CallsOf(s, "getReceiveDataStream") :
    IF call[4] THEN call[3] = -1 ELSE call[3] = call[2]

C4_Witness ==
  \E s \in Live : \E call \in CallsOf(s, "getReceiveDataStream") :
    /\ ~call[4]
    /\ call[3] = call[2]
    /\ \E id \in DOMAIN dataReceiveStreams : id > call[2]

\* C5: when the RETR handler has returned, on each of its exit paths,
\* lastFilePos is 0 and appendData is false
C5_RetrClearsFlags ==
  \A s \in Live :
    subConn[s].pc = "returned" /\ subConn[s].exec = "commandRetr"
      => subConn[s].lastFilePos = 0 /\ subConn[s].appendData = FALSE

C5_Witness ==
  \E s \in Live :
    /\ subConn[s].pc = "returned"
    /\ subConn[s].exec = "commandRetr"
    /\ subConn[s].replies = <<551>>
    /\ \E call \in CallsOf(s, "GetFile") : call[3] = 5

\* C6: when the RNTO handler has returned, whether Driver.Rename succeeded or
\* failed, renameFrom is the empty string
C6_RntoClearsRenameFrom ==
  \A s \in Live :
    subConn[s].pc = "returned" /\ subConn[s].exec = "commandRnto"
      => subConn[s].renameFrom = <<>>

C6_Witness ==
  \E s \in Live :
    /\ subConn[s].pc = "returned"
    /\ subConn[s].exec = "commandRnto"
    /\ subConn[s].replies = <<550>>
    /\ \E call \in CallsOf(s, "Rename") : call[2] # <<>>

Dialog(c) ==
  <<c.reqUser, c.user, c.renameFrom, c.lastFilePos, c.appendData, c.closed,
    c.namePrefix, c.stream>>

\* what claim C8 says of the record c1 that serving a line leaves of c0
C8_Dispatched(c0, c1) ==
  LET cmdObj == Lookup(c1.command)
  IN  IF cmdObj = "" THEN c1.replies = <<502>> /\ c1.exec = ""
      ELSE IF cmdObj \in RequireParam /\ c1.param = <<>>
           THEN c1.replies = <<553>> /\ c1.exec = ""
      ELSE IF cmdObj \in RequireAuth /\ c0.user = <<>>
           THEN c1.replies = <<530>> /\ c1.exec = ""
      ELSE c1.exec = cmdObj

\* C8: a line with an unknown verb is answered 502; else a RequireParam verb
\* without parameter 553, logged in or not; else a RequireAuth verb without
\* login 530; only otherwise is Execute invoked; in the three refusals no
\* handler runs and the dialog state stays as it was
C8_DispatchOrder ==
  [][\A s \in SubConnIds :
       (subConn[s].pc = "read" /\ subConn[s].stream = "open"
          /\ subConn'[s].pc \in {"returned", "lockSend", "lockRecv", "panic"})
       => /\ C8_Dispatched(subConn[s], subConn'[s])
          /\ subConn'[s].exec = "" =>
               /\ Dialog(subConn'[s]) = Dialog(subConn[s])
               /\ subConn'[s].pc = "returned"
               /\ subConn'[s].calls = <<>>]_vars

C8_Witness ==
  \E s \in Live :
    /\ subConn[s].replies = <<553>>
    /\ subConn[s].user = <<>>
    /\ Lookup(subConn[s].command) \in RequireAuth
    /\ subConn[s].exec = ""

\* C9: whenever the task is at the read of the next line, or back in Serve
\* on its way to it, the handler of the line before has returned and every
\* reply of that line, the closing reply of a transfer included, is written
C9_RepliesBeforeNextRead ==
  \A s \in Live :
    subConn[s].pc \in {"read", "returned"}
      => subConn[s].frame = NoFrame /\ ~subConn[s].awaiting

C9_Witness ==
  \E s \in Live :
    /\ subConn[s].pc = "returned"
    /\ subConn[s].exec = "commandRetr"
    /\ subConn[s].replies = <<150, 226>>

\* the parameter of STOR is two blank-separated tokens whose first is a
\* non-negative base-10 int64 with id mod 4 = 2
StorParamValid(param) ==
  LET params == SplitN2(param)
      n == ParseInt(params[1])
  IN  Len(params) = 2 /\ ~n.err /\ n.val >= 0 /\ n.val % 4 = 2

\* C10: a STOR whose parameter is not valid is answered 501 and returns: no
\* 150 reply, no inbound stream asked of the session, no Driver.PutFile
C10_StorRejectsBadParam ==
  \A s \in Live :
    subConn[s].exec = "commandStor" /\ ~StorParamValid(subConn[s].param)
      => /\ subConn[s].pc = "returned"
         /\ subConn[s].replies = <<501>>
         /\ CallsOf(s, "getReceiveDataStream") = {}
         /\ CallsOf(s, "PutFile") = {}

\* C11: no sub-connection task panics: a task is always reading, serving a
\* line, or leaving through Close and ReportSubConnFinsihed
C11_NeverPanics ==
  /\ ~crashed
  /\ \A s \in Live : subConn[s].pc # "panic"

\* the sub-connections whose task has reported its end
Done == { s \in SubConnIds : subConn[s].pc = "done" }

\* C12: a report of a finished sub-connection that brings runningSubConn to
\* zero closes the session and logs "Connection Terminated"; a report that
\* leaves the count above zero does neither
C12_ReportClosesAtZero ==
  [][\A s \in SubConnIds :
       (subConn[s].pc \in {"report", "panic"} /\ subConn'[s].pc = "done")
       => /\ runningSubConn' = runningSubConn - 1
          /\ IF runningSubConn' = 0
             THEN /\ sessionCloses' = sessionCloses + 1
                  /\ sessionDown'
                  /\ terminatedLogged' = terminatedLogged + 1
             ELSE /\ sessionCloses' = sessionCloses
                  /\ sessionDown' = sessionDown
                  /\ terminatedLogged' = terminatedLogged]_vars

C12_Witness ==
  /\ Cardinality(Done) >= 2
  /\ runningSubConn = 0
  /\ connPc # "returned"
  /\ sessionCloses = 1
  /\ terminatedLogged = 1

\* C13: once Shutdown has cancelled the context, Server.Serve returns
\* ErrServerClosed and not the listener's error, and the sessions accepted
\* before are not closed by the Shutdown: they are served on
C13_ShutdownDrains ==
  [][/\ (serverPc # "returned" /\ serverPc' = "returned" /\ ctx = "done")
          => serveErr' = "ErrServerClosed"
     /\ (shutdownPc # shutdownPc')
          => \A id \in SessionIds :
               sessions[id] \in {"accepted", "serving"} => sessions'[id] = sessions[id]]_vars

\* the paths the replies with code `code` to the line being served carry
Reported(s, code) ==
  { call[3] : call \in { k \in CallsOf(s, "writeMessage") : k[2] = code } }

\* C14: after a CWD the driver accepted, PWD reports exactly the path the 250
\* reply announced, and buildPath maps that path to itself
C14_PwdReportsAnnouncedPath ==
  \A s \in Live :
    (subConn[s].exec = "commandPwd" /\ subConn[s].announced # <<>>)
      => /\ Reported(s, 257) = {subConn[s].announced}
         /\ buildPath(subConn[s].namePrefix, subConn[s].announced) = subConn[s].announced

C14_Witness ==
  \E s \in Live :
    /\ subConn[s].exec = "commandPwd"
    /\ subConn[s].announced = <<"/", "a">>
    /\ Reported(s, 257) = {<<"/", "a">>}

\* C15: RETR calls Driver.GetFile with the offset of the most recent REST
\* answered 350 on the sub-connection since the last RETR, and with 0 if
\* there was none
C15_RetrUsesLastRestOffset ==
  [][\A s \in SubConnIds :
       (subConn[s].pc = "read" /\ subConn'[s].exec = "commandRetr")
       => \A call \in { subConn'[s].calls[i] : i \in DOMAIN subConn'[s].calls } :
            call[1] = "GetFile" => call[3] = subConn[s].restOffset]_vars

\* C16: runningSubConn is never negative, however the accepts of control
\* streams and the ends of sub-connections interleave
C16_CountNeverNegative == runningSubConn >= 0

C16_Witness ==
  /\ runningSubConn = 0
  /\ Done # {}
  /\ \E s \in SubConnIds : subConn[s].pc = "new"

\* C17: at most one task holds the session mutex; a step that changes
\* runningSubConn starts with the mutex free, which the stepping task takes
\* for the change; a step that changes the dataReceiveStreams map is taken by
\* the task that holds the mutex, inside getReceiveDataStream
C17_MutationsUnderMutex ==
  [][/\ Cardinality(structAccessMutex) <= 1
     /\ Cardinality(structAccessMutex') <= 1
     /\ runningSubConn' # runningSubConn => structAccessMutex = {}
     /\ dataReceiveStreams' # dataReceiveStreams
          => \E s \in SubConnIds :
               structAccessMutex = {s} /\ subConn[s].pc = "acceptRecv"]_vars

C17_Witness ==
  /\ connPc = "lock"
  /\ dataReceiveStreams # <<>>
  /\ \E s \in SubConnIds : structAccessMutex = {s} /\ subConn[s].pc = "acceptRecv"

\* C18: every stream in the dataReceiveStreams map is stored under its own id,
\* and that id is at most the largest id any sub-connection has asked of
\* getReceiveDataStream so far
C18_MapWithinRequested ==
  \A id \in DOMAIN dataReceiveStreams :
    dataReceiveStreams[id] = id /\ id <= maxRequested

\* C19: when getReceiveDataStream returned an error to STOR, the 425 reply is
\* the last reply of the command, neither 226 nor 450 is written, and
\* Driver.PutFile is not called
C19_StorFailsWithoutStream ==
  \A s \in Live :
    \A call \in CallsOf(s, "getReceiveDataStream") :
      call[4] => /\ subConn[s].replies # <<>>
                 /\ subConn[s].replies[Len(subConn[s].replies)] = 425
                 /\ \A i \in DOMAIN subConn[s].replies :
                      subConn[s].replies[i] \notin {226, 450}
                 /\ CallsOf(s, "PutFile") = {}

\* C20: the Serve loop of a sub-connection ends only when ReadString fails
\* (EOF or another read error) or when the handler of the line just served
\* (QUIT) has set closed; after any other line, whatever 4xx/5xx reply it got,
\* the task reads the next line
C20_LoopEndsOnReadErrorOrQuit ==
  [][\A s \in SubConnIds :
       /\ subConn[s].pc \notin {"absent", "report", "panic", "done"}
       /\ subConn'[s].pc \in {"report", "panic"}
       => \/ subConn[s].pc = "read" /\ subConn'[s].pc = "report"
          \/ subConn[s].pc = "returned" /\ subConn[s].closed
             /\ subConn'[s].pc = "report"]_vars

\* C21: while the process runs, a sub-connection that has left its Serve loop
\* and reports its end, or a handler that waits for the session mutex to open
\* an outbound stream, eventually gets on, whatever the other sub-connections
\* of the session wait for
C21_MutexWaitersGetOn ==
  \A s \in SubConnIds :
    (subConn[s].pc = "report" /\ ~crashed) ~> (subConn[s].pc = "done" \/ crashed)

\* how often operation op was called for the line sub-connection s serves
TimesCalled(s, op) ==
  Cardinality({ i \in DOMAIN subConn[s].calls : subConn[s].calls[i][1] = op })

\* C22: when RETR has returned and its Driver.GetFile had succeeded, the
\* reader was closed exactly once, whether the command ended with 425, 551
\* or 226; while the handler still runs the reader is not yet closed
C22_RetrClosesReaderOnce ==
  \A s \in Live :
    subConn[s].exec = "commandRetr"
    /\ (\E call \in CallsOf(s, "GetFile") : call[4] = "ok")
      => IF subConn[s].pc = "returned"
         THEN TimesCalled(s, "data.Close") = 1
         ELSE TimesCalled(s, "data.Close") = 0

C22_Witness ==
  \E s \in Live :
    /\ subConn[s].exec = "commandRetr"
    /\ subConn[s].pc = "returned"
    /\ subConn[s].replies = <<425>>
    /\ TimesCalled(s, "data.Close") = 1

\* the positions among the calls of sub-connection s at which reply code was
\* written
WrittenAt(s, code) ==
  { i \in DOMAIN subConn[s].calls : subConn[s].calls[i] = <<"writeMessage", code>> }

\* the positions among the calls of sub-connection s of the calls named ops
CalledAt(s, ops) ==
  { i \in DOMAIN subConn[s].calls : subConn[s].calls[i][1] \in ops }

\* C23: in a RETR, LIST or NLST the 150 reply is written before anything is
\* written to the data stream, and the 226 reply is written only after the
\* data stream has been closed
C23_RepliesBracketTransfer ==
  \A s \in Live :
    subConn[s].exec \in {"commandRetr", "commandList", "commandNlst"}
      => /\ \A j \in CalledAt(s, {"stream.Write", "io.Copy"}) :
              \E i \in WrittenAt(s, 150) : i < j
         /\ \A i \in WrittenAt(s, 226) :
              \E j \in CalledAt(s, {"stream.Close"}) : j < i

\* C24: the user of a sub-connection is empty exactly when no PASS on it has
\* been answered 230
C24_UserIffAuthenticated ==
  \A s \in Live : (subConn[s].user = <<>>) <=> ~subConn[s].passOk

\* C25: a PASS answered 530 or 550 leaves user and reqUser as they were and
\* the control stream open, and the task goes on to the next line; on a
\* sub-connection on which no PASS was answered 230, a line whose verb
\* requires a login (and has its parameter) is answered 530 and not executed
C25_RejectedPassKeepsLogin ==
  [][\A s \in SubConnIds :
       subConn[s].pc = "read" /\ subConn'[s].pc # "read"
       => /\ (subConn'[s].exec = "commandPass"
                /\ subConn'[s].replies \in {<<530>>, <<550>>})
             => /\ subConn'[s].user = subConn[s].user
                /\ subConn'[s].reqUser = subConn[s].reqUser
                /\ subConn'[s].stream = "open"
                /\ ~subConn'[s].closed
                /\ subConn'[s].pc = "returned"
          /\ (~subConn[s].passOk
                /\ Lookup(subConn'[s].command) \in RequireAuth
                /\ ~(Lookup(subConn'[s].command) \in RequireParam
                       /\ subConn'[s].param = <<>>))
             => subConn'[s].replies = <<530>> /\ subConn'[s].exec = ""]_vars

C25_Witness ==
  \E s \in Live :
    /\ subConn[s].exec = "commandPass"
    /\ subConn[s].replies = <<530>>
    /\ subConn[s].reqUser = <<"u">>
    /\ subConn[s].user = <<>>
    /\ subConn[s].stream = "open"

\* C26: a step changes the record of at most one sub-connection that the
\* session task has started; the dialog state of a sub-connection changes
\* only in a step of its own task; and what a line is answered depends on the
\* login of its own control stream, whatever the other streams have done
C26_DialogStateOwned ==
  [][\A s \in SubConnIds :
       subConn[s].pc \notin {"absent", "new"}
       => /\ subConn'[s] # subConn[s]
               => \A t \in SubConnIds \ {s} :
                    subConn[t].pc \notin {"absent", "new"} => subConn'[t] = subConn[t]
          /\ Dialog(subConn'[s]) # Dialog(subConn[s])
               => subConn[s].pc \in {"read", "returned"}
                  /\ subConn'[s].pc # subConn[s].pc
          /\ (subConn[s].pc = "read" /\ subConn'[s].pc = "returned")
               => C8_Dispatched(subConn[s], subConn'[s])]_vars

C26_Witness ==
  \E s, t \in Live :
    /\ subConn[s].passOk /\ subConn[s].user = <<"u">>
    /\ subConn[s].namePrefix = <<"/", "a">>
    /\ subConn[s].lastFilePos = 5
    /\ subConn[t].user = <<>>
    /\ subConn[t].namePrefix = <<"/">>
    /\ subConn[t].lastFilePos = 0
    /\ subConn[t].command = <<"PWD">>
    /\ subConn[t].replies = <<530>>

\* the getReceiveDataStream calls noted on sub-connection s that returned a
\* stream
StreamsGot(s) ==
  { call[3] : call \in { k \in CallsOf(s, "getReceiveDataStream") : ~k[4] } }

\* C27: an inbound stream is handed to one handler only: the streams that
\* getReceiveDataStream has returned to one sub-connection's STOR are
\* returned to no other sub-connection's STOR
C27_StreamHandedOnce ==
  \A s, t \in Live : s # t => StreamsGot(s) \cap StreamsGot(t) = {}

\* the ids of the streams AcceptUniStream returned in the calls noted on c
AcceptedIn(c) ==
  { c.calls[i][2] : i \in { j \in DOMAIN c.calls :
                              c.calls[j][1] = "AcceptUniStream" /\ c.calls[j][2] # -1 } }

\* C28: every stream the accept loop of getReceiveDataStream accepts is put in
\* the map, whatever id the loop looks for; no entry of the map is dropped or
\* replaced; and a call for an id that is in the map returns that stream
\* without accepting a stream and without changing the map
C28_AcceptedStreamsCached ==
  [][/\ \A id \in DOMAIN dataReceiveStreams :
          id \in DOMAIN dataReceiveStreams'
          /\ dataReceiveStreams'[id] = dataReceiveStreams[id]
     /\ \A s \in SubConnIds :
          /\ AcceptedIn(subConn'[s]) \subseteq DOMAIN dataReceiveStreams'
          /\ (subConn[s].pc = "lockRecv" /\ subConn'[s].pc # "lockRecv"
                /\ subConn[s].frame.streamID \in DOMAIN dataReceiveStreams)
             => /\ dataReceiveStreams' = dataReceiveStreams
                /\ AcceptedIn(subConn'[s]) = {}
                /\ subConn'[s].pc = "returned"
                /\ \E i \in DOMAIN subConn'[s].calls :
                     subConn'[s].calls[i] =
                       <<"getReceiveDataStream", subConn[s].frame.streamID,
                         dataReceiveStreams[subConn[s].frame.streamID], FALSE>>]_vars

C28_Witness ==
  \E s, t \in Live :
    /\ s # t
    /\ 2 \in AcceptedIn(subConn[s])
    /\ StreamsGot(s) = {6}
    /\ AcceptedIn(subConn[t]) = {}
    /\ StreamsGot(t) = {2}

\* C29: the working directory of every sub-connection begins with "/" and
\* has no ".." element, after every line served; and a CDUP or XCUP served
\* at "/" leaves it at "/"
C29_NamePrefixRootedClean ==
  /\ [](\A s \in Live :
          /\ subConn[s].namePrefix # <<>>
          /\ subConn[s].namePrefix[1] = "/"
          /\ DotDot \notin Range(Components(subConn[s].namePrefix)))
  /\ [][\A s \in SubConnIds :
          (subConn[s].pc = "read" /\ subConn'[s].exec = "commandCdup"
             /\ subConn[s].namePrefix = <<"/">>)
          => subConn'[s].namePrefix = <<"/">>]_vars

C29_Witness ==
  \E s \in Live :
    /\ subConn[s].exec = "commandCwd"
    /\ DotDot \in Range(Components(subConn[s].param))
    /\ subConn[s].replies = <<250>>
    /\ subConn[s].namePrefix = <<"/", "a">>

\* the paths Driver.ChangeDir was called with for the line noted on c
ChangeDirPaths(c) ==
  { c.calls[i][2] : i \in { j \in DOMAIN c.calls : c.calls[j][1] = "ChangeDir" } }

\* C30: the working directory of a sub-connection changes only in a CWD or
\* CDUP (or alias) answered 250, and is then the path Driver.ChangeDir was
\* called with; a CWD or CDUP answered 550 leaves it as it was
C30_NamePrefixFrame ==
  [][\A s \in SubConnIds :
       subConn[s].pc # "absent"
       => /\ subConn'[s].namePrefix # subConn[s].namePrefix
               => /\ subConn[s].pc = "read"
                  /\ subConn'[s].exec \in {"commandCwd", "commandCdup"}
                  /\ subConn'[s].replies = <<250>>
          /\ (subConn[s].pc = "read"
                /\ subConn'[s].exec \in {"commandCwd", "commandCdup"})
             => IF subConn'[s].replies = <<250>>
                THEN ChangeDirPaths(subConn'[s]) = {subConn'[s].namePrefix}
                ELSE /\ subConn'[s].replies = <<550>>
                     /\ subConn'[s].namePrefix = subConn[s].namePrefix]_vars

C30_Witness ==
  \E s \in Live :
    /\ subConn[s].exec = "commandCwd"
    /\ subConn[s].replies = <<550>>
    /\ subConn[s].namePrefix = <<"/", "a">>
    /\ ChangeDirPaths(subConn[s]) = {<<"/">>}

\* C31: Driver.PutFile is called with append = true exactly when an APPE or a
\* REST answered 350 was executed on the sub-connection since its last RETR
\* or STOR, and appendData is false when a STOR that called PutFile returns
C31_AppendForOneStor ==
  \A s \in Live :
    \A call \in CallsOf(s, "PutFile") :
      /\ call[4] = call[5]
      /\ subConn[s].pc = "returned" => ~subConn[s].appendData

C31_Witness ==
  \E s \in Live :
    /\ subConn[s].pc = "returned"
    /\ subConn[s].exec = "commandStor"
    /\ ~subConn[s].appendData
    /\ \E call \in CallsOf(s, "PutFile") : call[4]

\* C32: renameFrom is at every moment the path staged by the last RNFR since
\* the last RNTO, empty when there was none; Driver.Rename is called with it
\* as source; and when RNTO has returned nothing is staged any more
C32_RenameUsesStagedSource ==
  \A s \in Live :
    /\ subConn[s].renameFrom = subConn[s].staged
    /\ \A call \in CallsOf(s, "Rename") : call[2] = call[4]
    /\ (subConn[s].pc = "returned" /\ subConn[s].exec = "commandRnto")
         => subConn[s].renameFrom = <<>>

C32_Witness ==
  \E s \in Live :
    /\ subConn[s].pc = "returned"
    /\ subConn[s].exec = "commandRnto"
    /\ subConn[s].replies = <<250>>
    /\ subConn[s].renameFrom = <<>>
    /\ \E call \in CallsOf(s, "Rename") : call[2] = <<"/", "a">>

\* C33: a REST answered 551 leaves lastFilePos and appendData as they were;
\* a REST answered 350 sets lastFilePos to the parsed number and appendData
\* to true
C33_FailedRestSetsNothing ==
  [][\A s \in SubConnIds :
       (subConn[s].pc = "read" /\ subConn'[s].exec = "commandRest")
       => IF ParseInt(subConn'[s].param).err
          THEN /\ subConn'[s].replies = <<551>>
               /\ subConn'[s].lastFilePos = subConn[s].lastFilePos
               /\ subConn'[s].appendData = subConn[s].appendData
          ELSE /\ subConn'[s].replies = <<350>>
               /\ subConn'[s].lastFilePos = ParseInt(subConn'[s].param).val
               /\ subConn'[s].appendData]_vars


\* the rest of s from its first space on
RECURSIVE AfterToken(_)
AfterToken(s) == IF s = <<>> \/ Head(s) \in WhiteSpace THEN s ELSE AfterToken(Tail(s))

\* s from its first token that does not start with "-" on
RECURSIVE FromFirstNonFlag(_)
FromFirstNonFlag(s) ==
  LET t == TrimLeft(s, WhiteSpace)
  IN  IF t # <<>> /\ Head(t) = "-" THEN FromFirstNonFlag(AfterToken(t)) ELSE t

\* C34: parseListParam returns its parameter from the first token that does
\* not start with "-" on, whatever follows that token, and the empty string
\* only when every token is a flag
C34_ListParamDropsLeadingFlags ==
  /\ listPath = FromFirstNonFlag(listParam)
  /\ listPath = <<>> <=> \A i \in 1 .. Len(Fields(listParam)) :
                           HasPrefix(Fields(listParam)[i], <<"-">>)


\* C35: QUIT is answered 221, sets closed and closes the control stream; once
\* closed is set the task reads and dispatches no further line of the control
\* stream, and while the process runs a sub-connection that has served QUIT
\* gets through ReportSubConnFinsihed
C35_QuitEndsSubConn ==
  /\ [](\A s \in SubConnIds :
          (subConn[s].pc = "returned" /\ subConn[s].exec = "commandQuit")
          => /\ subConn[s].replies = <<221>>
             /\ subConn[s].closed
             /\ subConn[s].stream = "closed")
  /\ [][\A s \in SubConnIds :
          (subConn[s].closed /\ subConn'[s] # subConn[s])
          => subConn'[s].pc \in {"report", "done"}]_vars
  /\ \A s \in SubConnIds :
       (subConn[s].pc = "returned" /\ subConn[s].exec = "commandQuit")
       ~> (subConn[s].pc = "done" \/ crashed)


\* the positions among the calls of sub-connection s at which
\* getNewSendDataStream returned an outbound stream
OpenedAt(s) ==
  { i \in DOMAIN subConn[s].calls : subConn[s].calls[i] = <<"OpenUniStreamSync", "ok">> }

\* C36: a RETR, LIST or NLST handler that got an outbound stream from
\* getNewSendDataStream has closed it, once and after it got it, when it
\* returns, whether the copy succeeded or failed; a handler that got none
\* closes none, and a handler whose first reply is 550 or 551 has not called
\* getNewSendDataStream
C36_OutboundStreamClosed ==
  \A s \in Live :
    subConn[s].exec \in {"commandRetr", "commandList", "commandNlst"}
      => /\ Cardinality(OpenedAt(s)) <= 1
         /\ \A j \in CalledAt(s, {"stream.Close"}) : \E i \in OpenedAt(s) : i < j
         /\ subConn[s].pc = "returned"
              => TimesCalled(s, "stream.Close") = Cardinality(OpenedAt(s))
         /\ (subConn[s].replies # <<>> /\ Head(subConn[s].replies) \in {550, 551})
              => TimesCalled(s, "OpenUniStreamSync") = 0

C36_Witness ==
  \E s \in Live :
    /\ subConn[s].exec = "commandRetr"
    /\ subConn[s].pc = "returned"
    /\ subConn[s].replies = <<150, 551>>
    /\ OpenedAt(s) # {}
    /\ TimesCalled(s, "stream.Close") = 1


\* C37: a sub-connection that has returned from ReportSubConnFinsihed does not
\* hold the session mutex, also when its report brought runningSubConn to zero
\* and closed the session
C37_ReportReleasesMutex ==
  \A s \in SubConnIds : subConn[s].pc = "done" => s \notin structAccessMutex


\* C38: while the process runs, once the session is closed the task running
\* Conn.Serve returns
C38_ServeReturnsAfterClose ==
  sessionDown ~> (connPc = "returned" \/ crashed)


\* C39: every SubConn that Conn.Serve has created, counted or started stands
\* on a control stream that AcceptStream returned: none has the nil stream of
\* a failed AcceptStream
C39_SubConnOnlyForAcceptedStream ==
  \A s \in Live : subConn[s].stream # "nil"

====
